---- MODULE Spec2Model ----
(***************************************************************************)
(* A model of md2pages: configuration loading (config.py), Markdown        *)
(* discovery and asset copying (utils.py), the document transformer        *)
(* (converter.py) and the site orchestrator (generator.py).                *)
(*                                                                         *)
(* Text and paths are sequences of one-character strings, so that globbing,*)
(* regular expressions, suffix handling and case folding are computed the  *)
(* way the Python code computes them.  Path matching and globbing are      *)
(* case-sensitive, as on a POSIX platform.                                 *)
(***************************************************************************)
EXTENDS Integers, Sequences, FiniteSets, TLC

VARIABLES
    yaml_data,        \* parsed content of <input>/.site.yml (or why there is none)
    gitignore,        \* <input>/.gitignore: "missing", "unreadable" or its lines
    fs,               \* files below the input root: path -> file record
    dirs,             \* directories created by ensure_dir
    static_src,       \* which shipped static files exist in the package
    io_faults,        \* whether the platform lets file operations and rendering fail
    config,           \* the SiteConfig built by load_config
    pc,               \* position of the run: load, start, loop, static, images, done,
                      \* raised; convert, converted for a conversion on its own
    md_files,         \* generate_site: discovered documents, in discovery order
    idx,              \* generate_site: number of documents the loop has handled
    success_count,
    failure_count,
    errors,           \* list of <<key, exception>>
    pages,            \* list of PageInfo
    has_user_index,
    index_written,    \* the auto-index step wrote <output_dir>/index.html
    fs0,              \* the file system as it was before the run (for frame claims)
    outcomes,         \* history: for each handled document, "ok" or "failed"
    raised,           \* history: the asset steps whose call raised
    md_content,       \* converter: input text of convert_markdown
    fallback_title,   \* converter: fallback title of convert_markdown
    conv,             \* converter: result of convert_markdown, once it is done
    first             \* history: what the previous run over this tree returned and left

vars == <<yaml_data, gitignore, fs, dirs, static_src, io_faults, config, pc, md_files, idx,
          success_count, failure_count, errors, pages, has_user_index,
          index_written, fs0, outcomes, raised, md_content, fallback_title, conv,
          first>>

genVars == <<md_files, idx, success_count, failure_count, errors, pages,
             has_user_index, index_written, outcomes, raised>>
convVars == <<md_content, fallback_title, conv>>

----------------------------------------------------------------------------
(* Bounds *)

MaxDocs == 3          \* files in the input tree of a generator run
MaxGitLines == 2      \* lines of the .gitignore of a configuration or exclusion run
MaxPatFiles == 2      \* files in the input tree of an exclusion run
MaxTextLines == 3     \* lines of a frontmatter text
MaxLinkTokens == 5    \* tokens of a link text
MaxRerunFiles == 2    \* files in the input tree of a repeated run

----------------------------------------------------------------------------
(* Characters and strings *)

NL == "\n"
WhiteSpace == {" ", NL}
Quotes == {"\"", "'"}

\* str.lower() on the characters the model uses
LowerChar(c) ==
    CASE c = "I" -> "i" [] c = "N" -> "n" [] c = "D" -> "d" [] c = "E" -> "e"
      [] c = "X" -> "x" [] c = "M" -> "m" [] c = "T" -> "t" [] OTHER -> c

Lower(s) == [i \in 1..Len(s) |-> LowerChar(s[i])]

\* ord(): code points of the characters that occur in page paths
Ord(c) ==
    CASE c = "-" -> 45 [] c = "." -> 46 [] c = "/" -> 47
      [] c = "I" -> 73 [] c = "N" -> 78 [] c = "D" -> 68 [] c = "E" -> 69
      [] c = "X" -> 88 [] c = "M" -> 77 [] c = "T" -> 84
      [] c = "a" -> 97 [] c = "b" -> 98 [] c = "c" -> 99 [] c = "d" -> 100
      [] c = "e" -> 101 [] c = "h" -> 104 [] c = "i" -> 105 [] c = "l" -> 108
      [] c = "m" -> 109 [] c = "n" -> 110 [] c = "o" -> 111 [] c = "p" -> 112
      [] c = "s" -> 115 [] c = "t" -> 116 [] c = "x" -> 120
      [] OTHER -> 0

RECURSIVE StrLess(_, _)
\* Python's str < str: lexicographic by code point
StrLess(a, b) ==
    IF b = <<>> THEN FALSE
    ELSE IF a = <<>> THEN TRUE
    ELSE IF Head(a) = Head(b) THEN StrLess(Tail(a), Tail(b))
    ELSE Ord(Head(a)) < Ord(Head(b))

StartsWith(s, p) == Len(s) >= Len(p) /\ SubSeq(s, 1, Len(p)) = p
EndsWith(s, p) == Len(s) >= Len(p) /\ SubSeq(s, Len(s) - Len(p) + 1, Len(s)) = p
\* s[i:] with i a 1-based position
From(s, i) == SubSeq(s, i, Len(s))
\* whether p occurs in s at 1-based position i
At(s, i, p) == i >= 1 /\ i + Len(p) - 1 <= Len(s) /\ SubSeq(s, i, i + Len(p) - 1) = p
Range(s) == {s[i] : i \in 1..Len(s)}
NoDup(s) == \A i, j \in 1..Len(s) : s[i] = s[j] => i = j

\* str.strip() / str.rstrip(chars)
RECURSIVE LStrip(_)
LStrip(s) == IF s # <<>> /\ Head(s) \in WhiteSpace THEN LStrip(Tail(s)) ELSE s
RECURSIVE RStripSet(_, _)
RStripSet(s, cs) ==
    IF s # <<>> /\ s[Len(s)] \in cs THEN RStripSet(SubSeq(s, 1, Len(s) - 1), cs) ELSE s
Strip(s) == RStripSet(LStrip(s), WhiteSpace)

RECURSIVE Concat(_)
\* the concatenation of a sequence of strings
Concat(ss) == IF ss = <<>> THEN <<>> ELSE Head(ss) \o Concat(Tail(ss))

RECURSIVE JoinLines(_)
\* "\n".join(lines)
JoinLines(ls) ==
    IF ls = <<>> THEN <<>>
    ELSE IF Len(ls) = 1 THEN ls[1]
    ELSE ls[1] \o <<NL>> \o JoinLines(Tail(ls))

\* sequences over S of length at most n
SeqsUpTo(S, n) == UNION {[1..k -> S] : k \in 0..n}

----------------------------------------------------------------------------
(* pathlib.PurePosixPath on relative paths *)

Slash == "/"
SlashPositions(p) == {i \in 1..Len(p) : p[i] = Slash}
RECURSIVE LastIndexOf(_, _, _)
\* the last position <= i of s holding character c (0 if none): str.rfind
LastIndexOf(s, c, i) ==
    IF i = 0 THEN 0 ELSE IF s[i] = c THEN i ELSE LastIndexOf(s, c, i - 1)
LastSlash(p) == LastIndexOf(p, Slash, Len(p))
\* Path.name
PathName(p) == From(p, LastSlash(p) + 1)
\* Path.parent, <<>> standing for "."
PathParent(p) == SubSeq(p, 1, LastSlash(p) - 1)
\* a / b
PathJoin(a, b) == IF a = <<>> THEN b ELSE a \o <<Slash>> \o b
LastDot(n) == LastIndexOf(n, ".", Len(n))
\* Path.suffix: the last dot of the name, unless it leads or ends the name
PathSuffix(p) ==
    LET n == PathName(p) d == LastDot(n)
    IN IF 1 < d /\ d < Len(n) THEN From(n, d) ELSE <<>>
\* Path.stem
PathStem(p) ==
    LET n == PathName(p) IN SubSeq(n, 1, Len(n) - Len(PathSuffix(p)))
\* Path.with_suffix(suffix)
WithSuffix(p, suffix) == PathJoin(PathParent(p), PathStem(p) \o suffix)
\* whether file path f lies inside directory d (Path.relative_to succeeds)
IsInside(f, d) == d = <<>> \/ f = d \/ StartsWith(f, d \o <<Slash>>)

----------------------------------------------------------------------------
(* fnmatch.fnmatch on a POSIX platform: '*' matches any run of characters  *)
(* ('/' included), '?' any one character, everything else itself; the      *)
(* whole name must match.                                                  *)

RECURSIVE fnmatch(_, _)
fnmatch(name, pat) ==
    IF pat = <<>> THEN name = <<>>
    ELSE IF Head(pat) = "*"
         THEN fnmatch(name, Tail(pat)) \/ (name # <<>> /\ fnmatch(Tail(name), pat))
    ELSE IF Head(pat) = "?"
         THEN name # <<>> /\ fnmatch(Tail(name), Tail(pat))
    ELSE name # <<>> /\ Head(name) = Head(pat) /\ fnmatch(Tail(name), Tail(pat))

----------------------------------------------------------------------------
(* config.py *)

\* a YAML scalar as Python sees it: its type, and its text when it is a str
StrVal(s) == [t |-> "str", s |-> s]
IntVal == [t |-> "int", s |-> <<>>]
Absent == [present |-> FALSE, v |-> IntVal]
Given(v) == [present |-> TRUE, v |-> v]

s_site == <<"s", "i", "t", "e">>
s_Site == <<"S", "i", "t", "e">>

\* SiteConfig()
DefaultConfig ==
    [output_dir |-> StrVal(s_site), exclude |-> <<>>, site_title |-> StrVal(s_Site),
     base_url |-> StrVal(<<Slash>>), respect_gitignore |-> TRUE]

\* an extension that appends every item, present or not
_extend_all(target, items) == target \o items

RECURSIVE _extend_unique(_, _)
\* target extended by the items it does not hold yet, in order
_extend_unique(target, items) ==
    IF items = <<>> THEN target
    ELSE IF Head(items) \in Range(target) THEN _extend_unique(target, Tail(items))
    ELSE _extend_unique(Append(target, Head(items)), Tail(items))

GlobChars == {"*", "?", "["}
RecursiveSuffix == <<Slash, "*", "*">>

\* a translation that keeps the leading '/' of an anchored line
LineCandidatesAnchored(raw_line) ==
    LET line0 == Strip(raw_line) IN
    IF line0 = <<>> \/ Head(line0) \in {"#", "!"} THEN <<>>
    ELSE LET line == IF line0[Len(line0)] = Slash
                     THEN RStripSet(line0, {Slash}) \o RecursiveSuffix
                     ELSE line0
         IN IF Slash \notin Range(line) /\ Range(line) \cap GlobChars = {}
            THEN <<line, line \o RecursiveSuffix>>
            ELSE <<line>>

\* a translation that keeps a line as it is written
LineCandidatesVerbatim(raw_line) ==
    IF Strip(raw_line) = <<>> THEN <<>> ELSE <<Strip(raw_line)>>

\* the patterns one raw .gitignore line stands for (the body of the loop)
LineCandidates(raw_line) ==
    LET line0 == Strip(raw_line) IN
    IF line0 = <<>> \/ Head(line0) = "#" THEN <<>>
    ELSE IF Head(line0) = "!" THEN <<>>
    ELSE LET line1 == IF Head(line0) = Slash THEN Tail(line0) ELSE line0 IN
         IF line1 = <<>> THEN <<>>
         ELSE LET line == IF line1[Len(line1)] = Slash
                          THEN RStripSet(line1, {Slash}) \o RecursiveSuffix
                          ELSE line1
              IN IF Slash \notin Range(line) /\ Range(line) \cap GlobChars = {}
                 THEN <<line, line \o RecursiveSuffix>>
                 ELSE <<line>>

RECURSIVE GitignoreLoop(_, _)
\* the loop over the lines: each candidate is appended unless already present
GitignoreLoop(patterns, lines) ==
    IF lines = <<>> THEN patterns
    ELSE GitignoreLoop(_extend_unique(patterns, LineCandidates(Head(lines))), Tail(lines))

_load_gitignore_patterns(gi) ==
    IF gi.kind = "missing" THEN <<>>
    ELSE IF gi.kind = "unreadable" THEN <<>>
    ELSE GitignoreLoop(<<>>, gi.lines)

_finalize_config(cfg, gi, exclude_patterns) ==
    LET merged == IF cfg.respect_gitignore
                  THEN _extend_unique(exclude_patterns, _load_gitignore_patterns(gi))
                  ELSE exclude_patterns
    IN [cfg EXCEPT !.exclude = merged]

\* the "Merge configuration" block of load_config, for a YAML mapping
MergeYaml(y) ==
    LET c1 == IF y.output_dir.present
              THEN [DefaultConfig EXCEPT !.output_dir = y.output_dir.v]
              ELSE DefaultConfig
        ex == IF y.exclude.present /\ y.exclude.t = "list_str"
              THEN _extend_unique(<<>>, y.exclude.l)
              ELSE <<>>
        c2 == IF y.respect_gitignore.present /\ y.respect_gitignore.t = "bool"
              THEN [c1 EXCEPT !.respect_gitignore = y.respect_gitignore.b]
              ELSE c1
        c3 == IF y.site.present /\ y.site.t = "dict" /\ y.site.title.present
              THEN [c2 EXCEPT !.site_title = y.site.title.v]
              ELSE c2
        c4 == IF y.site.present /\ y.site.t = "dict" /\ y.site.base_url.present
              THEN [c3 EXCEPT !.base_url = y.site.base_url.v]
              ELSE c3
    IN [cfg |-> c4, exclude_patterns |-> ex]

load_config(y, gi) ==
    IF y.kind = "dict"
    THEN LET m == MergeYaml(y) IN _finalize_config(m.cfg, gi, m.exclude_patterns)
    ELSE \* no file, an empty document, a parse error or any other exception
         _finalize_config(DefaultConfig, gi, <<>>)

----------------------------------------------------------------------------
(* converter.py *)

SetMin(S) == CHOOSE x \in S : \A y \in S : x <= y
SetMax(S) == CHOOSE x \in S : \A y \in S : y <= x
\* the first position p >= i of s whose character is not in cs (Len(s) + 1 if none)
SkipChars(s, i, cs) ==
    SetMin({p \in i..Len(s) : s[p] \notin cs} \cup {Len(s) + 1})
\* the first position p >= i of s whose character is c (0 if none)
FirstChar(s, i, c) ==
    LET ps == {p \in i..Len(s) : s[p] = c} IN IF ps = {} THEN 0 ELSE SetMin(ps)

Dashes == <<"-", "-", "-">>
s_title_colon == <<"t", "i", "t", "l", "e", ":">>
NoTitle == [found |-> FALSE, s |-> <<>>]

\* r'\n---\s*\n' matched at position e: the position of its last character, 0 if none.
\* The greedy \s* runs over newlines too, so the match ends at the last newline
\* of the whitespace that follows the dashes.
CloseEnd(text, e) ==
    IF ~At(text, e, <<NL>> \o Dashes) THEN 0
    ELSE LET w == SkipChars(text, e + 4, WhiteSpace)
             ns == {n \in (e + 4)..(w - 1) : text[n] = NL}
         IN IF ns = {} THEN 0 ELSE SetMax(ns)

\* re.match(r'^---\s*\n(.*?)\n---\s*\n', md_content, re.DOTALL):
\* open is the position of the \n ending the opening line, close that of the \n
\* before the closing dashes, end the last position of the match
NoMatch == [ok |-> FALSE, open |-> 0, close |-> 0, end |-> 0]
FrontmatterMatch(text) ==
    IF ~At(text, 1, Dashes) THEN NoMatch
    ELSE LET w == SkipChars(text, 4, WhiteSpace)
             closes(a) == {e \in (a + 1)..Len(text) : CloseEnd(text, e) # 0}
             opens == {a \in 4..(w - 1) : text[a] = NL /\ closes(a) # {}}
         IN IF opens = {} THEN NoMatch
            ELSE LET a == SetMax(opens)          \* greedy \s*
                     e == SetMin(closes(a))      \* lazy (.*?)
                 IN [ok |-> TRUE, open |-> a, close |-> e, end |-> CloseEnd(text, e)]

\* r'\s*$' (re.MULTILINE) matched at position r of fm
TitleTailOk(fm, r) ==
    LET w == SkipChars(fm, r, WhiteSpace) IN
    w = Len(fm) + 1 \/ \E n \in r..(w - 1) : fm[n] = NL

\* the ways r'\s*["\']?(.+?)["\']?\s*$' matches from position p (after 'title:'):
\* k whitespace characters, q opening quotes, a group of L characters, cq closing quotes
TitleWays(fm, p) ==
    LET w == SkipChars(fm, p, WhiteSpace) IN
    {c \in (0..(w - p)) \X {0, 1} \X (1..Len(fm)) \X {0, 1} :
        LET g == p + c[1] + c[2]
            r == g + c[3]
        IN /\ c[2] = 1 => (p + c[1] <= Len(fm) /\ fm[p + c[1]] \in Quotes)
           /\ r - 1 <= Len(fm)
           /\ \A n \in g..(r - 1) : fm[n] # NL
           /\ c[4] = 1 => (r <= Len(fm) /\ fm[r] \in Quotes)
           /\ TitleTailOk(fm, r + c[4])}

\* the order in which the backtracking matcher tries them: more whitespace first,
\* the optional quote taken first, the lazy group as short as possible
TitleWayBefore(c, d) ==
    \/ c[1] > d[1]
    \/ c[1] = d[1] /\ c[2] > d[2]
    \/ c[1] = d[1] /\ c[2] = d[2] /\ c[3] < d[3]
    \/ c[1] = d[1] /\ c[2] = d[2] /\ c[3] = d[3] /\ c[4] >= d[4]

\* re.search(r'^title:\s*["\']?(.+?)["\']?\s*$', fm, re.MULTILINE).group(1).strip()
TitleSearch(fm) ==
    LET starts == {s \in 1..Len(fm) :
                      /\ (s = 1 \/ fm[s - 1] = NL)
                      /\ At(fm, s, s_title_colon)
                      /\ TitleWays(fm, s + 6) # {}}
    IN IF starts = {} THEN NoTitle
       ELSE LET p == SetMin(starts) + 6
                ways == TitleWays(fm, p)
                c == CHOOSE x \in ways : \A y \in ways : TitleWayBefore(x, y)
                g == p + c[1] + c[2]
            IN [found |-> TRUE, s |-> Strip(SubSeq(fm, g, g + c[3] - 1))]

\* (content_without_frontmatter, title_from_frontmatter)
extract_frontmatter(text) ==
    LET m == FrontmatterMatch(text) IN
    IF ~m.ok THEN [content |-> text, title |-> NoTitle]
    ELSE [content |-> From(text, m.end + 1),
          title |-> TitleSearch(SubSeq(text, m.open + 1, m.close - 1))]

DotMd == <<".", "m", "d">>
DotHtml == <<".", "h", "t", "m", "l">>

\* a link pattern that takes any target of four characters or more
LinkMatchEndAnyTarget(text, i) ==
    IF i > Len(text) \/ text[i] # "[" THEN 0
    ELSE LET b == FirstChar(text, i + 1, "]") IN
         IF b = 0 \/ b = i + 1 \/ ~At(text, b, <<"]", "(">>) THEN 0
         ELSE LET c == FirstChar(text, b + 2, ")") IN
              IF c = 0 \/ c - (b + 2) < 4 THEN 0 ELSE c

\* r'\[([^\]]+)\]\(([^\)]+)\.md\)' matched at position i: the position of the
\* closing parenthesis, 0 if there is no match
LinkMatchEnd(text, i) ==
    IF i > Len(text) \/ text[i] # "[" THEN 0
    ELSE LET b == FirstChar(text, i + 1, "]") IN
         IF b = 0 \/ b = i + 1 \/ ~At(text, b, <<"]", "(">>) THEN 0
         ELSE LET c == FirstChar(text, b + 2, ")") IN
              IF c = 0 \/ c - (b + 2) < 4 \/ ~At(text, c - 3, DotMd) THEN 0
              ELSE c

RECURSIVE ReSubLinks(_, _)
\* re.sub(pattern, r'[\1](\2.html)', text) from position pos on
ReSubLinks(text, pos) ==
    LET ms == {i \in pos..Len(text) : LinkMatchEnd(text, i) # 0} IN
    IF ms = {} THEN From(text, pos)
    ELSE LET c == LinkMatchEnd(text, SetMin(ms))
         IN SubSeq(text, pos, c - 4) \o DotHtml \o <<")">> \o ReSubLinks(text, c + 1)

convert_md_links_to_html(text) == ReSubLinks(text, 1)

\* convert_markdown up to the call of the Markdown library: the text handed to
\* md.convert, and the title
convert_markdown(text, fallback) ==
    LET fm == extract_frontmatter(text)
        title == IF fm.title.found /\ fm.title.s # <<>> THEN fm.title.s ELSE fallback
    IN [body |-> convert_md_links_to_html(fm.content), title |-> title]

----------------------------------------------------------------------------
(* utils.py *)

\* a file of the tree below the input root
MdFile(text) == [kind |-> "md", src |-> <<>>, text |-> text, title |-> <<>>, state |-> "complete"]
OtherFile == [kind |-> "other", src |-> <<>>, text |-> <<>>, title |-> <<>>, state |-> "complete"]
\* what write_file leaves at a page's output path: the rendered page of document src
PageFile(src, conv_result, state) ==
    [kind |-> "page", src |-> src, text |-> conv_result.body, title |-> conv_result.title,
     state |-> state]
\* the rendered auto-index: its listing is the text, one path per line
IndexFile(listing, state) ==
    [kind |-> "autoindex", src |-> <<>>, text |-> listing, title |-> <<>>, state |-> state]
CopiedFile(src) == [kind |-> "copy", src |-> src, text |-> <<>>, title |-> <<>>, state |-> "complete"]

\* the directories of a tree: every ancestor of one of its files
TreeDirs(files) ==
    UNION {{SubSeq(f, 1, i - 1) : i \in SlashPositions(f)} : f \in DOMAIN files}

\* the paths rglob("*" + ext) yields, files and directories alike: the name
\* ends with ext, compared case-sensitively (ext holds no '/', so this is the
\* path ending with ext)
RGlob(files, ext) == {f \in DOMAIN files \cup TreeDirs(files) : EndsWith(f, ext)}

\* the exclusion test of find_markdown_files and copy_image_assets
Excluded(relative_str, exclude_patterns) ==
    \E i \in 1..Len(exclude_patterns) : fnmatch(relative_str, exclude_patterns[i])

\* the set of paths find_markdown_files returns (rglob fixes no order); a
\* directory named *.md is among them, the loop has no is_file test
find_markdown_files(files, exclude_patterns) ==
    {f \in RGlob(files, DotMd) : ~Excluded(f, exclude_patterns)}

\* the orders in which a set of files can be listed
Orders(S) == {o \in [1..Cardinality(S) -> S] : \A i, j \in 1..Cardinality(S) : o[i] = o[j] => i = j}

\* the directory and all its ancestors (mkdir(parents=True, exist_ok=True))
ensure_dir(path) ==
    {SubSeq(path, 1, i - 1) : i \in SlashPositions(path)} \cup (IF path = <<>> THEN {} ELSE {path})

\* write_file: the parent directory is created, then the file is written.
\* how: "ok", or the step that raised: "mkdir" (nothing was created), "write"
\* (f.write failed after open() truncated or created the file)
write_file_fs(files, path, file, how) ==
    IF how = "mkdir" THEN files
    ELSE IF how = "write" THEN [q \in DOMAIN files \cup {path} |->
                IF q = path THEN [file EXCEPT !.state = "partial"] ELSE files[q]]
    ELSE [q \in DOMAIN files \cup {path} |-> IF q = path THEN file ELSE files[q]]
write_file_dirs(ds, path, how) ==
    IF how = "mkdir" THEN ds ELSE ds \cup ensure_dir(PathParent(path))

s_static == <<"s", "t", "a", "t", "i", "c">>
s_style_css == <<"s", "t", "y", "l", "e", ".", "c", "s", "s">>
s_script_js == <<"s", "c", "r", "i", "p", "t", ".", "j", "s">>

\* copy_static_assets(output_dir) when the package holds style.css iff css and
\* script.js iff js.  how: "ok", or the step that raised: "mkdir", "css", "js"
copy_static_assets_fs(files, output_dir, css, js, how) ==
    LET static_dst == PathJoin(output_dir, s_static)
        css_dst == PathJoin(static_dst, s_style_css)
        js_dst == PathJoin(static_dst, s_script_js)
        new == (IF css /\ how \in {"ok", "js"} THEN {css_dst} ELSE {})
               \cup (IF js /\ how = "ok" THEN {js_dst} ELSE {})
    IN [q \in DOMAIN files \cup new |->
          IF q \in new THEN CopiedFile(PathName(q)) ELSE files[q]]
\* whether copy_static_assets raises
copy_static_assets_raises(css, js, how) ==
    how = "mkdir" \/ (how = "css" /\ css) \/ (how = "js" /\ js)

ImageExtensions == {<<".", "p", "n", "g">>, <<".", "j", "p", "g">>, <<".", "j", "p", "e", "g">>,
                    <<".", "g", "i", "f">>, <<".", "s", "v", "g">>, <<".", "p", "d", "f">>}

\* a copy that also takes the images lying in the output directory
ImagesToCopyAnywhere(files, output_dir, exclude_patterns) ==
    {f \in UNION {RGlob(files, ext) : ext \in ImageExtensions} :
        f \in DOMAIN files /\ ~Excluded(f, exclude_patterns)}

\* the images copy_image_assets copies when nothing fails
ImagesToCopy(files, output_dir, exclude_patterns) ==
    {f \in UNION {RGlob(files, ext) : ext \in ImageExtensions} :
        f \in DOMAIN files /\ ~IsInside(f, output_dir) /\ ~Excluded(f, exclude_patterns)}

copy_image_assets_fs(files, output_dir, copied) ==
    LET new == {PathJoin(output_dir, f) : f \in copied} IN
    [q \in DOMAIN files \cup new |->
        IF q \in new THEN CopiedFile(CHOOSE f \in copied : PathJoin(output_dir, f) = q)
        ELSE files[q]]

----------------------------------------------------------------------------
(* generator.py: generate_site *)

s_index_html == <<"i", "n", "d", "e", "x", ".", "h", "t", "m", "l">>
s_static_assets == <<"s", "t", "a", "t", "i", "c", " ", "a", "s", "s", "e", "t", "s">>
s_image_assets == <<"i", "m", "a", "g", "e", " ", "a", "s", "s", "e", "t", "s">>

\* a name test that compares case-sensitively
IsIndexNameExact(html_path) == PathName(html_path) = s_index_html

\* the name test of lines 72, 94 and 98
IsIndexName(html_path) == Lower(PathName(html_path)) = s_index_html

\* lines 66-73: the output-relative path of a document
HtmlPath(relative_path) ==
    LET html_path == WithSuffix(relative_path, DotHtml) IN
    IF IsIndexName(html_path) THEN PathJoin(PathParent(html_path), s_index_html)
    ELSE html_path

PageInfo(title, relative_path) == [title |-> title, relative_path |-> relative_path]

RECURSIVE InsertPage(_, _)
\* p inserted after the entries whose key is not greater (the sort is stable)
InsertPage(sorted, p) ==
    IF sorted = <<>> THEN <<p>>
    ELSE IF StrLess(p.relative_path, Head(sorted).relative_path) THEN <<p>> \o sorted
    ELSE <<Head(sorted)>> \o InsertPage(Tail(sorted), p)
RECURSIVE SortPages(_)
\* pages.sort(key=lambda p: p.relative_path)
SortPages(ps) ==
    IF ps = <<>> THEN <<>>
    ELSE InsertPage(SortPages(SubSeq(ps, 1, Len(ps) - 1)), ps[Len(ps)])

\* the listing render_index puts on the page
IndexListing(ps) == JoinLines([i \in 1..Len(ps) |-> ps[i].relative_path])

\* the exception object of an errors entry; which exception it is decides nothing
Exc == "exception"

\* the keys recorded in errors
ErrorKeys == {errors[i][1] : i \in 1..Len(errors)}
ErrorsKeyed(k) == {i \in 1..Len(errors) : errors[i][1] = k}

OutputDir == config.output_dir.s

\* load_config, as called by the command line before generate_site
LoadConfig ==
    /\ pc = "load"
    /\ config' = load_config(yaml_data, gitignore)
    /\ pc' = "start"
    /\ UNCHANGED <<yaml_data, gitignore, fs, dirs, static_src, io_faults, fs0>>
    /\ UNCHANGED genVars
    /\ UNCHANGED convVars
    /\ UNCHANGED first

\* a run that goes on with no document found
AfterDiscoveryNoReturn(found) == "loop"

\* lines 45-47: with no document found the run returns at once
AfterDiscovery(found) == IF found = <<>> THEN "done" ELSE "loop"

\* lines 36-57: the output directory, discovery, the early return
Start ==
    /\ pc = "start"
    /\ IF config.output_dir.t # "str"
       THEN \* input_dir / config.output_dir raises TypeError
            /\ pc' = "raised"
            /\ UNCHANGED md_files
       ELSE \E order \in Orders(find_markdown_files(fs, config.exclude)) :
            \* rglob lists the entries a previous run saw in the order it saw them
            /\ \A i, j \in 1..Len(order), k, l \in 1..Len(first.md_files) :
                  (order[i] = first.md_files[k] /\ order[j] = first.md_files[l] /\ i < j)
                      => k < l
            /\ md_files' = order
            /\ pc' = AfterDiscovery(order)
    /\ UNCHANGED <<yaml_data, gitignore, fs, dirs, static_src, io_faults, config, fs0>>
    /\ UNCHANGED <<idx, success_count, failure_count, errors, pages, has_user_index,
                   index_written, outcomes, raised>>
    /\ UNCHANGED convVars
    /\ UNCHANGED first

DocOutcomes == {"ok", "read", "transform", "render", "mkdir", "write"}

\* an except clause that counts the failure without recording it
DocFailureUnrecorded(errs, md_file) == errs

\* lines 106-108: the except clause records the document and its exception
DocFailure(errs, md_file) == Append(errs, <<md_file, Exc>>)

\* lines 60-109: one iteration of the loop over md_files
ProcessDoc ==
    /\ pc = "loop"
    /\ idx < Len(md_files)
    /\ \E how \in (IF md_files[idx + 1] \notin DOMAIN fs THEN {"read"}  \* a directory
                   ELSE IF io_faults THEN DocOutcomes ELSE {"ok"}) :
        LET md_file == md_files[idx + 1]
            html_path == HtmlPath(md_file)
            converted == convert_markdown(fs[md_file].text, PathStem(md_file))
            output_path == PathJoin(OutputDir, html_path)
            rendered == PageFile(md_file, converted, "complete")
            write_how == IF how \in {"mkdir", "write"} THEN how ELSE "ok"
            written == how \in {"ok", "mkdir", "write"}
        IN /\ fs' = IF written THEN write_file_fs(fs, output_path, rendered, write_how)
                    ELSE fs
           /\ dirs' = IF written THEN write_file_dirs(dirs, output_path, write_how)
                      ELSE dirs
           /\ IF how = "ok"
              THEN /\ has_user_index' = (has_user_index \/ IsIndexName(html_path))
                   /\ pages' = IF ~IsIndexName(html_path)
                               THEN Append(pages, PageInfo(converted.title, html_path))
                               ELSE pages
                   /\ success_count' = success_count + 1
                   /\ UNCHANGED <<errors, failure_count>>
              ELSE /\ errors' = DocFailure(errors, md_file)
                   /\ failure_count' = failure_count + 1
                   /\ UNCHANGED <<has_user_index, pages, success_count>>
           /\ outcomes' = Append(outcomes, IF how = "ok" THEN "ok" ELSE "failed")
    /\ idx' = idx + 1
    /\ UNCHANGED <<yaml_data, gitignore, static_src, io_faults, config, pc, md_files,
                   index_written, fs0, raised>>
    /\ UNCHANGED convVars
    /\ UNCHANGED first

IndexOutcomes == {"ok", "render", "mkdir", "write"}

\* lines 111-125: the sort and the auto-index
GenerateIndex ==
    /\ pc = "loop"
    /\ idx = Len(md_files)
    /\ pages' = SortPages(pages)
    /\ IF pages # <<>> /\ ~has_user_index
       THEN \E how \in (IF io_faults THEN IndexOutcomes ELSE {"ok"}) :
            LET output_path == PathJoin(OutputDir, s_index_html)
                index_html == IndexFile(IndexListing(pages'), "complete")
                write_how == IF how \in {"mkdir", "write"} THEN how ELSE "ok"
            IN /\ fs' = IF how = "render" THEN fs
                        ELSE write_file_fs(fs, output_path, index_html, write_how)
               /\ dirs' = IF how = "render" THEN dirs
                          ELSE write_file_dirs(dirs, output_path, write_how)
               /\ index_written' = (how = "ok")
               /\ IF how = "ok"
                  THEN UNCHANGED <<errors, failure_count>>
                  ELSE /\ errors' = Append(errors, <<s_index_html, Exc>>)
                       /\ failure_count' = failure_count + 1
       ELSE UNCHANGED <<fs, dirs, index_written, errors, failure_count>>
    /\ pc' = "static"
    /\ UNCHANGED <<yaml_data, gitignore, static_src, io_faults, config, md_files, idx,
                   success_count, has_user_index, fs0, outcomes, raised>>
    /\ UNCHANGED convVars
    /\ UNCHANGED first

\* the shipped files that exist, and the step of copy_static_assets that raises
\* (a step can raise whatever exists; it is let to raise with both files present)
StaticOutcomes ==
    {<<TRUE, TRUE, "ok">>, <<FALSE, TRUE, "ok">>, <<TRUE, FALSE, "ok">>,
     <<TRUE, TRUE, "mkdir">>, <<TRUE, TRUE, "js">>}

\* lines 127-132: the static assets.  Which shipped files exist is read here.
CopyStatic ==
    /\ pc = "static"
    /\ \E o \in (IF io_faults THEN StaticOutcomes ELSE {<<TRUE, TRUE, "ok">>}) :
        LET css == o[1] js == o[2] how == o[3] IN
        /\ static_src' = [read |-> TRUE, css |-> css, js |-> js]
        /\ fs' = IF how = "mkdir" THEN fs
                 ELSE copy_static_assets_fs(fs, OutputDir, css, js, how)
        /\ dirs' = IF how = "mkdir" THEN dirs
                   ELSE dirs \cup ensure_dir(PathJoin(OutputDir, s_static))
        /\ errors' = IF copy_static_assets_raises(css, js, how)
                     THEN Append(errors, <<s_static_assets, Exc>>)
                     ELSE errors
        /\ raised' = IF copy_static_assets_raises(css, js, how)
                     THEN raised \cup {"static"} ELSE raised
    /\ pc' = "images"
    /\ UNCHANGED <<yaml_data, gitignore, io_faults, config, md_files, idx, success_count,
                   failure_count, pages, has_user_index, index_written, fs0, outcomes>>
    /\ UNCHANGED convVars
    /\ UNCHANGED first

\* lines 134-145: the image assets and the return
CopyImages ==
    /\ pc = "images"
    /\ LET all == ImagesToCopy(fs, OutputDir, config.exclude) IN
       \E copied \in SUBSET all, fails \in BOOLEAN :
        /\ ~fails => copied = all
        /\ fails => (io_faults /\ all # {})   \* a copy must be attempted for one to fail
        /\ fs' = copy_image_assets_fs(fs, OutputDir, copied)
        /\ dirs' = dirs \cup UNION {ensure_dir(PathParent(PathJoin(OutputDir, f))) : f \in copied}
        /\ errors' = IF fails THEN Append(errors, <<s_image_assets, Exc>>) ELSE errors
        /\ raised' = IF fails THEN raised \cup {"images"} ELSE raised
    /\ pc' = "done"
    /\ UNCHANGED <<yaml_data, gitignore, static_src, io_faults, config, md_files, idx,
                   success_count, failure_count, pages, has_user_index, index_written, fs0,
                   outcomes>>
    /\ UNCHANGED convVars
    /\ UNCHANGED first

----------------------------------------------------------------------------
(* The inputs of a run *)

NoExclude == [present |-> FALSE, t |-> "list_str", l |-> <<>>]
NoFlag == [present |-> FALSE, t |-> "bool", b |-> TRUE]
NoSite == [present |-> FALSE, t |-> "dict", title |-> Absent, base_url |-> Absent]
\* .site.yml when it is not a mapping: kind says why
YamlOther(kind) ==
    [kind |-> kind, output_dir |-> Absent, exclude |-> NoExclude,
     respect_gitignore |-> NoFlag, site |-> NoSite]
NoGitignore == [kind |-> "missing", lines |-> <<>>]
GitignoreOf(lines) == [kind |-> "lines", lines |-> lines]
StaticUnread == [read |-> FALSE, css |-> TRUE, js |-> TRUE]

p_a_md == <<"a", ".", "m", "d">>
p_index_md == <<"i", "n", "d", "e", "x", ".", "m", "d">>
p_Index_md == <<"I", "n", "d", "e", "x", ".", "m", "d">>
p_INDEX_MD == <<"I", "N", "D", "E", "X", ".", "M", "D">>
p_sub_index_md == <<"s", "u", "b", "/", "i", "n", "d", "e", "x", ".", "m", "d">>
p_d_x_md == <<"d", "/", "x", ".", "m", "d">>
p_p_png == <<"p", ".", "p", "n", "g">>
p_b_x_md == <<"b", "/", "x", ".", "m", "d">>
p_b_s_x_md == <<"b", "/", "s", "/", "x", ".", "m", "d">>
p_b_o_md == <<"b", "-", "o", ".", "m", "d">>
p_n_md == <<"n", ".", "m", "d">>
p_n_md_x_md == <<"n", ".", "m", "d", "/", "x", ".", "m", "d">>
p_n_md_o_md == <<"n", ".", "m", "d", "-", "o", ".", "m", "d">>

t_with_title == <<"-", "-", "-", NL, "t", "i", "t", "l", "e", ":", " ", "T", NL,
                  "-", "-", "-", NL, "x">>
t_plain == <<"x">>
\* the content of a Markdown file of the model, by its path
DocText(path) == IF path = p_a_md THEN t_with_title ELSE t_plain

\* the tree holding the files of S
TreeOf(S) ==
    [f \in S |-> IF EndsWith(Lower(f), DotMd) THEN MdFile(DocText(f)) ELSE OtherFile]
\* no path of S is both a file and a directory
Consistent(S) == \A f, g \in S : f # g => ~IsInside(g, f)

\* the files a generator run's tree is made of: two pages, a root index written
\* with a capital, the index of a subdirectory, an image
GenFiles == {p_a_md, p_d_x_md, p_Index_md, p_sub_index_md, p_p_png}

l_d_dir == <<"d", "/">>

NotConverted == [done |-> FALSE, body |-> <<>>, title |-> <<>>]
\* no run before this one
NoFirst == [done |-> FALSE, success_count |-> 0, failure_count |-> 0, errors |-> <<>>,
            md_files |-> <<>>, fs |-> <<>>, dirs |-> {}]

\* what is the same at the start of every run
InitRun ==
    /\ dirs = {}
    /\ static_src = StaticUnread
    /\ config = DefaultConfig
    /\ pc = "load"
    /\ md_files = <<>>
    /\ idx = 0
    /\ success_count = 0
    /\ failure_count = 0
    /\ errors = <<>>
    /\ pages = <<>>
    /\ has_user_index = FALSE
    /\ index_written = FALSE
    /\ outcomes = <<>>
    /\ raised = {}
    /\ fs0 = fs
    /\ md_content = <<>>
    /\ fallback_title = <<>>
    /\ conv = NotConverted
    /\ first = NoFirst

\* generator runs: no .site.yml, any tree of at most MaxDocs files
Init ==
    /\ io_faults = TRUE
    /\ yaml_data = YamlOther("missing")
    /\ gitignore \in {NoGitignore, GitignoreOf(<<l_d_dir>>)}
    /\ \E S \in SUBSET GenFiles :
        /\ Cardinality(S) <= MaxDocs
        /\ fs = TreeOf(S)
    /\ InitRun

Next ==
    \/ LoadConfig
    \/ Start
    \/ ProcessDoc
    \/ GenerateIndex
    \/ CopyStatic
    \/ CopyImages

Spec == Init /\ [][Next]_vars

----------------------------------------------------------------------------
(* Repeated runs: the command is run again over the tree the first run left *)

\* main() called a second time: load_config and generate_site start afresh
Rerun ==
    /\ pc = "done"
    /\ ~first.done
    /\ first' = [done |-> TRUE, success_count |-> success_count,
                 failure_count |-> failure_count, errors |-> errors,
                 md_files |-> md_files, fs |-> fs, dirs |-> dirs]
    /\ pc' = "load"
    /\ config' = DefaultConfig
    /\ md_files' = <<>>
    /\ idx' = 0
    /\ success_count' = 0
    /\ failure_count' = 0
    /\ errors' = <<>>
    /\ pages' = <<>>
    /\ has_user_index' = FALSE
    /\ index_written' = FALSE
    /\ outcomes' = <<>>
    /\ raised' = {}
    /\ static_src' = StaticUnread
    /\ UNCHANGED <<yaml_data, gitignore, fs, dirs, io_faults, fs0>>
    /\ UNCHANGED convVars

\* pages, an index, images, and a page and an image that lie in the output
\* directory before the first run
RerunFiles ==
    {p_a_md, p_d_x_md, p_Index_md, p_p_png,
     <<"d", "/", "q", ".", "p", "n", "g">>,
     <<"s", "i", "t", "e", "/", "o", ".", "m", "d">>,
     <<"s", "i", "t", "e", "/", "r", ".", "p", "n", "g">>}

\* repeated runs: default configuration, nothing fails
InitRerun ==
    /\ io_faults = FALSE
    /\ yaml_data = YamlOther("missing")
    /\ gitignore \in {NoGitignore, GitignoreOf(<<l_d_dir>>)}
    /\ \E S \in SUBSET RerunFiles :
        /\ Cardinality(S) <= MaxRerunFiles
        /\ fs = TreeOf(S)
    /\ InitRun

SpecRerun == InitRerun /\ [][Next \/ Rerun]_vars

----------------------------------------------------------------------------
(* Configuration runs: any .site.yml and .gitignore over a fixed small tree *)

s_out == <<"o", "u", "t">>
s_My == <<"M", "y">>
pat_d == <<"d", "/", "*", "*">>
pat_t == <<"t", "/", "*", "*">>
l_t == <<"t">>
l_negated == <<"!", "n">>
l_anchored_d == <<"/", "d", "/">>

ScalarChoices(s) == {Absent, Given(StrVal(s)), Given(IntVal)}
ExcludeChoices ==
    {NoExclude,
     [present |-> TRUE, t |-> "list_str", l |-> <<pat_t, pat_d>>],
     [present |-> TRUE, t |-> "list_str", l |-> <<pat_d, pat_d>>],
     [present |-> TRUE, t |-> "list_mixed", l |-> <<>>]}
FlagChoices ==
    {NoFlag, [present |-> TRUE, t |-> "str", b |-> TRUE],
     [present |-> TRUE, t |-> "bool", b |-> FALSE]}
SiteChoices ==
    {NoSite, [present |-> TRUE, t |-> "str", title |-> Absent, base_url |-> Absent]}
    \cup {[present |-> TRUE, t |-> "dict", title |-> c[1], base_url |-> c[2]] :
            c \in {<<Given(StrVal(s_My)), Given(StrVal(<<Slash, "x", Slash>>))>>,
                   <<Given(IntVal), Given(IntVal)>>}}
YamlChoices ==
    {YamlOther(k) : k \in {"missing", "unreadable", "malformed", "null", "scalar"}}
    \cup {[kind |-> "dict", output_dir |-> od, exclude |-> ex,
           respect_gitignore |-> rg, site |-> si] :
            od \in ScalarChoices(s_out), ex \in ExcludeChoices,
            rg \in FlagChoices, si \in SiteChoices}
CfgGitLines == {l_d_dir, l_t, l_negated, l_anchored_d}
GitignoreChoices(lines, n) ==
    {NoGitignore, [kind |-> "unreadable", lines |-> <<>>]}
    \cup {GitignoreOf(ls) : ls \in SeqsUpTo(lines, n)}

InitCfg ==
    /\ io_faults = FALSE
    /\ yaml_data \in YamlChoices
    /\ gitignore \in GitignoreChoices(CfgGitLines, MaxGitLines)
    /\ fs = TreeOf({p_a_md, p_d_x_md})
    /\ InitRun

SpecCfg == InitCfg /\ [][Next]_vars

----------------------------------------------------------------------------
(* Translation runs: any .gitignore of the lines below, over a one-page tree *)

\* an empty line, a comment, a negation, an anchored name, a directory, a bare
\* name, a glob, a path, an anchored name that begins with '!', a lone anchor
GitLines ==
    {<<>>, <<"#", "c">>, l_negated, <<Slash, "t">>, l_d_dir, l_t, <<"*", ".", "l">>,
     <<"a", Slash, "b">>, <<Slash, "!", "n">>, <<Slash>>}

InitGit ==
    /\ io_faults = FALSE
    /\ yaml_data = YamlOther("missing")
    /\ gitignore \in GitignoreChoices(GitLines, MaxGitLines)
    /\ fs = TreeOf({p_a_md})
    /\ InitRun

SpecGit == InitGit /\ [][Next]_vars

----------------------------------------------------------------------------
(* Exclusion runs: a .gitignore naming directories and bare names, over     *)
(* trees that hold files below them and beside them                         *)

n_b == <<"b">>
n_n_md == <<"n", ".", "m", "d">>
PatNames == {n_b, n_n_md}
\* the gitignore lines "name/" and "name"
DirLine(name) == name \o <<Slash>>
PatLines == UNION {{DirLine(n), n} : n \in PatNames}
PatFiles == {p_b_x_md, p_b_s_x_md, p_b_o_md, p_n_md, p_n_md_x_md, p_n_md_o_md}

InitPat ==
    /\ io_faults = FALSE
    /\ yaml_data = YamlOther("missing")
    /\ \E ls \in SeqsUpTo(PatLines, MaxGitLines) : ls # <<>> /\ gitignore = GitignoreOf(ls)
    /\ \E S \in SUBSET PatFiles :
        /\ Cardinality(S) <= MaxPatFiles
        /\ Consistent(S)
        /\ fs = TreeOf(S)
    /\ InitRun

SpecPat == InitPat /\ [][Next]_vars

----------------------------------------------------------------------------
(* Conversion runs: convert_markdown applied to one text *)

l_dashes_sp == <<"-", "-", "-", " ">>
l_title_T == <<"t", "i", "t", "l", "e", ":", " ", "T">>
l_title_dq == <<"t", "i", "t", "l", "e", ":", " ", "\"", "T", "\"">>
l_title_half == <<"t", "i", "t", "l", "e", ":", " ", "\"", "T">>
l_title_none == <<"t", "i", "t", "l", "e", ":">>
l_x == <<"x">>
FmLines == {Dashes, l_dashes_sp, l_title_T, l_title_dq, l_title_half, l_title_none, l_x, <<>>}
\* texts of at most MaxTextLines lines, with or without a final newline
FmTexts ==
    UNION {{JoinLines(ls), JoinLines(ls) \o <<NL>>} : ls \in SeqsUpTo(FmLines, MaxTextLines)}

LinkTokens == {<<"[">>, <<"]", "(">>, <<")">>, <<"]">>, <<"a">>, DotMd}
\* texts of an opening bracket and at most MaxLinkTokens further tokens
LinkTexts == {<<"[">> \o Concat(ts) : ts \in SeqsUpTo(LinkTokens, MaxLinkTokens)}
\* a link whose text holds brackets of its own, as an image link does
t_nested_link ==
    <<"[", "[", "a", "]", "(", "a", ")", "]", "(", "a", ".", "m", "d", ")">>
\* a link to an anchor of a page
t_anchor_link == <<"[", "a", "]", "(", "a", ".", "m", "d", "#", "a", ")">>
\* a link that begins inside the target of another
t_overlapped_link ==
    <<"[", "a", "]", "(", "a", "[", "a", ".", "m", "d", ")", "a", "]", "(", "a", ".", "m", "d", ")">>
LinkSamples == {t_nested_link, t_anchor_link, t_overlapped_link}

s_my_page == <<"m", "y", "-", "p", "a", "g", "e">>

InitConv ==
    /\ io_faults = FALSE
    /\ yaml_data = YamlOther("missing")
    /\ gitignore = NoGitignore
    /\ fs = TreeOf({})
    /\ dirs = {}
    /\ static_src = StaticUnread
    /\ config = DefaultConfig
    /\ pc = "convert"
    /\ md_files = <<>>
    /\ idx = 0
    /\ success_count = 0
    /\ failure_count = 0
    /\ errors = <<>>
    /\ pages = <<>>
    /\ has_user_index = FALSE
    /\ index_written = FALSE
    /\ outcomes = <<>>
    /\ raised = {}
    /\ fs0 = fs
    /\ md_content \in FmTexts \cup LinkTexts \cup LinkSamples
    /\ fallback_title = s_my_page
    /\ conv = NotConverted
    /\ first = NoFirst

\* convert_markdown(md_content, fallback_title)
ConvertMarkdown ==
    /\ pc = "convert"
    /\ LET r == convert_markdown(md_content, fallback_title)
       IN conv' = [done |-> TRUE, body |-> r.body, title |-> r.title]
    /\ pc' = "converted"
    /\ UNCHANGED <<yaml_data, gitignore, fs, dirs, static_src, io_faults, config, fs0>>
    /\ UNCHANGED genVars
    /\ UNCHANGED <<md_content, fallback_title, first>>

NextConv == ConvertMarkdown

SpecConv == InitConv /\ [][NextConv]_vars

----------------------------------------------------------------------------
(* Properties of generate_site, over the behaviours of Spec *)

Handled == 1..Len(outcomes)
OkDocs == {i \in Handled : outcomes[i] = "ok"}
FailedDocs == {i \in Handled : outcomes[i] = "failed"}
AfterLoop == pc \in {"static", "images", "done"}
AssetKeys == {s_static_assets, s_image_assets}
s_index_md == <<"i", "n", "d", "e", "x", ".", "m", "d">>
\* a source file named index.md in any letter case
IsIndexDoc(f) == Lower(PathName(f)) = s_index_md
RootIndexPath == PathJoin(OutputDir, s_index_html)
AutoIndexProduced ==
    index_written \/ (RootIndexPath \in DOMAIN fs /\ fs[RootIndexPath].kind = "autoindex")

\* C1: every discovered document is handled; a failing one adds exactly one
\* errors entry under its path and one to failure_count, a non-failing one has
\* its output file written and adds one to success_count; the document-keyed
\* errors entries are exactly the failing documents.
C1_EveryDocumentOneOutcome ==
    /\ Len(outcomes) = idx
    /\ (AfterLoop /\ md_files # <<>>) => idx = Len(md_files)
    /\ \A i \in FailedDocs : Cardinality(ErrorsKeyed(md_files[i])) = 1
    /\ \A i \in OkDocs :
        /\ ErrorsKeyed(md_files[i]) = {}
        /\ PathJoin(OutputDir, HtmlPath(md_files[i])) \in DOMAIN fs
        /\ fs[PathJoin(OutputDir, HtmlPath(md_files[i]))].kind = "page"
    /\ success_count = Cardinality(OkDocs)
    /\ failure_count = Cardinality(FailedDocs) + Cardinality(ErrorsKeyed(s_index_html))
    /\ ErrorKeys \ (AssetKeys \cup {s_index_html}) = {md_files[i] : i \in FailedDocs}

\* three documents, one of which failed, and the run is over
C1_Witness ==
    /\ pc = "done"
    /\ Len(md_files) = 3
    /\ Cardinality(OkDocs) = 2
    /\ Cardinality(FailedDocs) = 1

\* C2 as claimed: a failed static copy, a missing shipped CSS or JS file, or a
\* failed image copy is recorded under its key, and the asset steps leave
\* failure_count and success_count alone.
C2_AssetFailuresRecorded ==
    /\ (static_src.read /\ ("static" \in raised \/ ~static_src.css \/ ~static_src.js))
          => s_static_assets \in ErrorKeys
    /\ "images" \in raised => s_image_assets \in ErrorKeys
    /\ AfterLoop =>
          /\ failure_count = Cardinality(FailedDocs) + Cardinality(ErrorsKeyed(s_index_html))
          /\ success_count = Cardinality(OkDocs)

IndexNamesMapTogether ==
    \A dir \in {<<>>, <<"s", "u", "b">>} :
        \A f \in {p_index_md, p_Index_md, p_INDEX_MD} :
            HtmlPath(PathJoin(dir, f)) = PathJoin(dir, s_index_html)
NoIndexPageListed ==
    \A k \in 1..Len(pages) : \A i \in 1..Len(md_files) :
        IsIndexDoc(md_files[i]) => pages[k].relative_path # HtmlPath(md_files[i])

C4_RootIndexExists ==
    (/\ pc = "done"
     /\ \E i \in OkDocs : ~IsIndexDoc(md_files[i])
     /\ s_index_html \notin ErrorKeys)
    => /\ RootIndexPath \in DOMAIN fs
       /\ IF \E i \in 1..Len(md_files) :
                IsIndexDoc(md_files[i]) /\ PathParent(md_files[i]) = <<>>
          THEN fs[RootIndexPath].kind = "page"
          ELSE /\ fs[RootIndexPath].kind = "autoindex"
               /\ fs[RootIndexPath].text = IndexListing(pages)
               /\ {pages[k].relative_path : k \in 1..Len(pages)}
                    = {HtmlPath(md_files[i]) : i \in {j \in OkDocs : ~IsIndexDoc(md_files[j])}}

\* C5: when discovery finds no document the result is all zero and nothing is
\* created or written: the tree is as it was and no directory was made.
C5_EmptyInputNoEffect ==
    (pc = "done" /\ md_files = <<>>)
    => /\ success_count = 0
       /\ failure_count = 0
       /\ errors = <<>>
       /\ fs = fs0
       /\ dirs = {}

\* the run returned early although the tree holds an excluded document and an image
C5_Witness ==
    /\ pc = "done"
    /\ md_files = <<>>
    /\ p_d_x_md \in DOMAIN fs0
    /\ p_p_png \in DOMAIN fs0

----------------------------------------------------------------------------
(* Properties of exclusion, over the behaviours of SpecPat *)

Discovered == pc \in {"loop", "static", "images", "done"}
\* the paths discovery looks at: everything rglob("*.md") yields in the tree
Candidates == RGlob(fs0, DotMd)
Under(f, name) == StartsWith(f, name \o <<Slash>>)
SiblingOf(f, name) == StartsWith(f, name \o <<"-">>)

\* C6: for every gitignore line "name/" and every bare line "name", discovery
\* returns no path below name at any depth (nor, for the bare line, name
\* itself); a sibling such as name-other is returned when the lines are about
\* name only.
C6_DirectoryLinesExclude ==
    Discovered =>
      \A n \in PatNames :
        /\ (\E k \in 1..Len(gitignore.lines) : gitignore.lines[k] \in {DirLine(n), n})
              => \A f \in Candidates : Under(f, n) => f \notin Range(md_files)
        /\ (\E k \in 1..Len(gitignore.lines) : gitignore.lines[k] = n)
              => n \notin Range(md_files)
        /\ (\A k \in 1..Len(gitignore.lines) : gitignore.lines[k] \in {DirLine(n), n})
              => \A f \in Candidates : SiblingOf(f, n) => f \in Range(md_files)

\* "b/" is ignored, the tree holds b/s/x.md and b-o.md, and only b-o.md was found
C6_Witness ==
    /\ pc = "done"
    /\ gitignore.lines = <<DirLine(n_b)>>
    /\ DOMAIN fs0 = {p_b_s_x_md, p_b_o_md}
    /\ md_files = <<p_b_o_md>>

----------------------------------------------------------------------------
(* Properties of load_config, over the behaviours of SpecCfg *)

Loaded == pc # "load"
ValidExclude == yaml_data.kind = "dict" /\ yaml_data.exclude.present
                /\ yaml_data.exclude.t = "list_str"
\* the explicitly configured exclude entries
ExplicitExclude == IF ValidExclude THEN yaml_data.exclude.l ELSE <<>>
RECURSIVE FirstOccurrences(_)
\* a sequence without the repetitions of its elements
FirstOccurrences(q) ==
    IF q = <<>> THEN <<>>
    ELSE LET init == FirstOccurrences(SubSeq(q, 1, Len(q) - 1)) IN
         IF q[Len(q)] \in Range(init) THEN init ELSE Append(init, q[Len(q)])
RECURSIVE Without(_, _)
\* the elements of q that are not in S, in order
Without(q, S) ==
    IF q = <<>> THEN <<>>
    ELSE IF Head(q) \in S THEN Without(Tail(q), S)
    ELSE <<Head(q)>> \o Without(Tail(q), S)

\* C7: the exclude list is the explicit entries in their order followed by the
\* gitignore-derived patterns not already present, no pattern twice; with
\* respect_gitignore false it is the explicit entries only.
C7_ExcludeMerge ==
    Loaded =>
      LET explicit == FirstOccurrences(ExplicitExclude)
          derived == _load_gitignore_patterns(gitignore)
      IN /\ NoDup(config.exclude)
         /\ config.respect_gitignore
              => config.exclude = explicit \o Without(derived, Range(explicit))
         /\ ~config.respect_gitignore => config.exclude = explicit

\* explicit t/** and d/** with a gitignore of "d/" and "t": only "t" is added
C7_Witness ==
    /\ pc = "done"
    /\ ExplicitExclude = <<pat_t, pat_d>>
    /\ gitignore.lines = <<l_d_dir, l_t>>
    /\ config.respect_gitignore
    /\ config.exclude = <<pat_t, pat_d, l_t>>

WrongType(field) == yaml_data.kind = "dict" /\ field.present /\ field.v.t # "str"
\* C10 as claimed: a recognized field given a value of the wrong type gets its
\* default, the other fields keep their valid values, and neither load_config
\* nor generate_site raises because of it.
C10_WrongTypeFallsBackToDefault ==
    /\ pc # "raised"
    /\ Loaded =>
        /\ WrongType(yaml_data.output_dir) => config.output_dir = DefaultConfig.output_dir
        /\ (yaml_data.site.t = "dict" /\ WrongType(yaml_data.site.title))
              => config.site_title = DefaultConfig.site_title
        /\ (yaml_data.site.t = "dict" /\ WrongType(yaml_data.site.base_url))
              => config.base_url = DefaultConfig.base_url
        /\ (yaml_data.kind = "dict" /\ yaml_data.respect_gitignore.present
              /\ yaml_data.respect_gitignore.t # "bool")
              => config.respect_gitignore = DefaultConfig.respect_gitignore
        /\ (yaml_data.kind = "dict" /\ yaml_data.exclude.present
              /\ yaml_data.exclude.t # "list_str")
              => config.exclude = (IF config.respect_gitignore
                                   THEN _load_gitignore_patterns(gitignore) ELSE <<>>)
        /\ (yaml_data.kind = "dict" /\ yaml_data.respect_gitignore.present
              /\ yaml_data.respect_gitignore.t = "bool")
              => config.respect_gitignore = yaml_data.respect_gitignore.b

----------------------------------------------------------------------------
(* Properties of the converter, over the behaviours of SpecConv *)

Converted == pc = "converted"
RECURSIVE SplitLines(_)
\* the lines of a text, split at every newline
SplitLines(text) ==
    LET n == FirstChar(text, 1, NL) IN
    IF n = 0 THEN <<text>>
    ELSE <<SubSeq(text, 1, n - 1)>> \o SplitLines(From(text, n + 1))
\* a line that is only ---
IsDelimiter(l) == RStripSet(l, WhiteSpace) = Dashes
\* the line closing the frontmatter block, 0 when there is no block
ClosingLine(ls) ==
    LET js == {j \in 2..Len(ls) : IsDelimiter(ls[j])} IN
    IF ~IsDelimiter(ls[1]) \/ js = {} THEN 0 ELSE SetMin(js)
Unquoted(v) ==
    IF Len(v) >= 2 /\ v[1] \in Quotes /\ v[Len(v)] = v[1]
    THEN SubSeq(v, 2, Len(v) - 1) ELSE v
\* the body the claim describes: the text after the closing line
ClaimedBody(text) ==
    LET ls == SplitLines(text)
        j == ClosingLine(ls)
    IN IF j = 0 THEN text ELSE JoinLines(SubSeq(ls, j + 1, Len(ls)))
\* the title the claim describes
ClaimedTitle(text, fallback) ==
    LET ls == SplitLines(text)
        j == ClosingLine(ls)
        ts == {k \in 2..(j - 1) : StartsWith(ls[k], s_title_colon)}
    IN IF j = 0 \/ ts = {} THEN fallback
       ELSE LET v == Unquoted(Strip(From(ls[SetMin(ts)], 7))) IN
            IF v = <<>> THEN fallback ELSE v

\* C8 as claimed: a block opened by a first line that is only --- and closed
\* by a later such line is removed with both delimiter lines and the title is
\* the value of its title: line without surrounding matching quotes; otherwise
\* the text is untouched and the title is the fallback.
C8_FrontmatterContract ==
    Converted =>
      /\ extract_frontmatter(md_content).content = ClaimedBody(md_content)
      /\ conv.title = ClaimedTitle(md_content, fallback_title)

\* the text handed to convert_md_links_to_html
LinkInput == extract_frontmatter(md_content).content
\* the closing parentheses of the occurrences of [text](target.md) in a text:
\* a non-empty text, a target that holds no ')' and ends in .md
OccurrenceEnds(text) ==
    {c \in 1..Len(text) :
        /\ At(text, c - 3, DotMd \o <<")">>)
        /\ \E i \in 1..c, b \in 1..c :
            /\ text[i] = "["
            /\ i + 1 < b
            /\ At(text, b, <<"]", "(">>)
            /\ b + 2 < c - 3
            /\ \A n \in (b + 2)..(c - 1) : text[n] # ")"}
\* those of them whose text holds neither ']' nor ')'
PlainOccurrenceEnds(text) ==
    {c \in 1..Len(text) :
        /\ At(text, c - 3, DotMd \o <<")">>)
        /\ \E i \in 1..c, b \in 1..c :
            /\ text[i] = "["
            /\ i + 1 < b
            /\ At(text, b, <<"]", "(">>)
            /\ b + 2 < c - 3
            /\ \A n \in (b + 2)..(c - 1) : text[n] # ")"
            /\ \A n \in (i + 1)..(b - 1) : text[n] \notin {"]", ")"}}
RECURSIVE ReplaceMd(_, _, _)
\* text from position p on, with .md made .html before each parenthesis of C
ReplaceMd(text, C, p) ==
    IF p > Len(text) THEN <<>>
    ELSE IF p + 3 \in C THEN DotHtml \o ReplaceMd(text, C, p + 3)
    ELSE <<text[p]>> \o ReplaceMd(text, C, p + 1)

----------------------------------------------------------------------------
(* Properties of repeated runs, over the behaviours of SpecRerun *)

\* the files the first run created
FirstRunOutput == DOMAIN first.fs \ DOMAIN fs0

\* C11: a second run over the same root and configuration, the first having
\* had no failure, returns the same counts and errors and leaves the same
\* tree; it takes no file the first run generated or copied as a document,
\* and every copied image comes from a file of the original tree.
C11_SecondRunSame ==
    (first.done /\ first.failure_count = 0 /\ first.errors = <<>>) =>
      /\ pc \in {"loop", "static", "images", "done"}
            => Range(md_files) \cap FirstRunOutput = {}
      /\ pc = "done" =>
            /\ success_count = first.success_count
            /\ failure_count = first.failure_count
            /\ errors = first.errors
            /\ fs = first.fs
            /\ dirs = first.dirs
            /\ \A q \in DOMAIN fs :
                  (fs[q].kind = "copy" /\ ~IsInside(q, PathJoin(OutputDir, s_static)))
                      => fs[q].src \in DOMAIN fs0 \ FirstRunOutput

\* the second run is over, on a tree of one page and one image: the page was
\* converted again, the auto-index and the copy of the image are in place
C11_Witness ==
    /\ first.done
    /\ pc = "done"
    /\ DOMAIN fs0 = {p_a_md, p_p_png}
    /\ success_count = 1
    /\ index_written
    /\ PathJoin(OutputDir, p_p_png) \in DOMAIN fs

----------------------------------------------------------------------------
(* Properties of a failed write, over the behaviours of Spec *)

\* C12 as claimed: after the run, the output path of a document that failed
\* either does not exist or holds complete content, and the document stands
\* for one error and one failure_count increment.
C12_NoPartialOutput ==
    pc = "done" =>
      /\ \A i \in FailedDocs :
            LET output_path == PathJoin(OutputDir, HtmlPath(md_files[i])) IN
            /\ output_path \in DOMAIN fs => fs[output_path].state = "complete"
            /\ Cardinality(ErrorsKeyed(md_files[i])) = 1
      /\ failure_count = Cardinality(FailedDocs) + Cardinality(ErrorsKeyed(s_index_html))

----------------------------------------------------------------------------
(* Properties of the gitignore translation, over the behaviours of SpecGit *)

\* what the translation rules make of one line
RuleLine(raw_line) ==
    LET line == Strip(raw_line) IN
    IF line = <<>> \/ StartsWith(line, <<"#">>) \/ StartsWith(line, <<"!">>) THEN <<>>
    ELSE LET unanchored == IF StartsWith(line, <<Slash>>) THEN Tail(line) ELSE line IN
         IF unanchored = <<>> THEN <<>>
         ELSE IF EndsWith(unanchored, <<Slash>>)
              THEN <<RStripSet(unanchored, {Slash}) \o <<Slash, "*", "*">>>>
         ELSE IF Range(unanchored) \cap {Slash, "*", "?", "["} = {}
              THEN <<unanchored, unanchored \o <<Slash, "*", "*">>>>
         ELSE <<unanchored>>
\* what they make of the lines of a file: first appearances, in order
RulePatterns(lines) ==
    FirstOccurrences(Concat([k \in 1..Len(lines) |-> RuleLine(lines[k])]))
GitignoreRead == gitignore.kind = "lines"

\* C13 as claimed: the result is the list the translation rules define, in
\* order of first appearance, with no duplicate and no pattern beginning
\* with '!'.
C13_TranslationRules ==
    (Loaded /\ GitignoreRead) =>
      LET patterns == _load_gitignore_patterns(gitignore) IN
      /\ patterns = RulePatterns(gitignore.lines)
      /\ config.exclude = patterns
      /\ NoDup(patterns)
      /\ \A k \in 1..Len(patterns) : ~StartsWith(patterns[k], <<"!">>)

\* C13 as amended: the same, except that a pattern may begin with '!' when
\* it comes from an anchored line "/!name"; no line that begins with '!'
\* contributes a pattern.
C13_TranslationRulesAnchoredBang ==
    (Loaded /\ GitignoreRead) =>
      LET patterns == _load_gitignore_patterns(gitignore) IN
      /\ patterns = RulePatterns(gitignore.lines)
      /\ config.exclude = patterns
      /\ NoDup(patterns)
      /\ \A k \in 1..Len(patterns) :
            StartsWith(patterns[k], <<"!">>)
                => \E l \in 1..Len(gitignore.lines) :
                      StartsWith(Strip(gitignore.lines[l]), <<Slash, "!">>)
      /\ \A l \in 1..Len(gitignore.lines) :
            StartsWith(Strip(gitignore.lines[l]), <<"!">>)
                => RuleLine(gitignore.lines[l]) = <<>>

\* "/t" and "d/" were read and gave t, t/** and d/**
C13_Witness ==
    /\ pc = "done"
    /\ gitignore.lines = <<<<Slash, "t">>, l_d_dir>>
    /\ config.exclude = <<l_t, pat_t, pat_d>>

----------------------------------------------------------------------------
(* Properties of the processed documents, over the behaviours of SpecRerun *)

\* C14: every document processed as a source document is a .md file under
\* the input root that matches no exclusion pattern and is not inside the
\* resolved output directory; a .md file inside the output directory is never
\* converted.
C14_SourcesOutsideOutput ==
    \A i \in Handled :
        /\ md_files[i] \in DOMAIN fs0
        /\ EndsWith(md_files[i], DotMd)
        /\ ~Excluded(md_files[i], config.exclude)
        /\ ~IsInside(md_files[i], OutputDir)
        /\ outcomes[i] = "ok" => ~IsInside(md_files[i], OutputDir)

====
